---- MODULE Spec2Model ----
(***************************************************************************)
(* The State RPC module of gossamer (dot/rpc/modules/state.go).            *)
(*                                                                         *)
(* The module owns no state.  Every handler is one atomic step that reads  *)
(* the request, calls the storage / core providers, and writes the         *)
(* caller-supplied response object.  The state of the model is the         *)
(* providers' content plus a record of the last handler call: its request, *)
(* the response object before and after, the returned error and the        *)
(* provider calls the handler made, in order.                              *)
(*                                                                         *)
(* Go values: a string is a sequence of one-character strings, a []byte a  *)
(* sequence of integers 0..255, the nil []byte is NilBytes, a nil          *)
(* *common.Hash is NoHash, a nil error is NoErr.                           *)
(***************************************************************************)
EXTENDS Integers, Sequences, FiniteSets, TLC

VARIABLES store,      \* storage provider: state root -> trie (key -> value)
          op,         \* name of the last handler called
          req,        \* its request: [key, bhash]
          before,     \* the response object as the caller passed it in
          res,        \* the response object when the handler ended
          ret,        \* what the handler returned (NoErr, an error, Void, Panic)
          calls,      \* the provider calls the handler made, in order
          prevPairs   \* the call before this one, when it was a successful GetPairs("")

vars == <<store, op, req, before, res, ret, calls, prevPairs>>

---------------------------------------------------------------------------
(* Bounds *)

\* longest value held in the trie
MaxValLen == 2
\* width of a hash in bytes (common.HashLength is 32; scaled down)
HashLength == 1

---------------------------------------------------------------------------
(* Go values *)

NoHash == "nil"
NoErr == "nil"
NoRoot == "nil"
NilBytes == <<-1>>
Void == "void"
Panic == "panic: nil pointer dereference"

ErrUnknownBlock == "UnknownBlock"
ErrStorageUnavailable == "StorageUnavailable"
ErrRuntimeUnavailable == "RuntimeUnavailable"
ErrDecode == "DecodeError"
ErrHex == "InvalidHex"

\* len(b) of a []byte: 0 for nil
GoLen(b) == IF b = NilBytes THEN 0 ELSE Len(b)

\* the bytes of a []byte: none for nil
GoBytes(b) == IF b = NilBytes THEN <<>> ELSE b

---------------------------------------------------------------------------
(* Hex encoding *)

HexChars == <<"0", "1", "2", "3", "4", "5", "6", "7",
              "8", "9", "a", "b", "c", "d", "e", "f">>

RECURSIVE EncodeToString(_)
EncodeToString(b) ==
    IF Len(b) = 0 THEN <<>>
    ELSE <<HexChars[(b[1] \div 16) + 1], HexChars[(b[1] % 16) + 1]>>
         \o EncodeToString(Tail(b))

\* "0x" + hex.EncodeToString(b)
Hex0x(b) == <<"0", "x">> \o EncodeToString(GoBytes(b))

\* common.BytesToHex
BytesToHex(b) == <<"0", "x">> \o EncodeToString(GoBytes(b))

IsHexChar(c) == \E i \in 1..16 : HexChars[i] = c

NibbleOf(c) == (CHOOSE i \in 1..16 : HexChars[i] = c) - 1

RECURSIVE DecodeString(_)
DecodeString(s) ==
    IF Len(s) = 0 THEN <<>>
    ELSE <<NibbleOf(s[1]) * 16 + NibbleOf(s[2])>>
         \o DecodeString(SubSeq(s, 3, Len(s)))

\* common.HexToBytes: the bytes of a 0x-prefixed, even-length hex string,
\* or nil and an error
HexToBytes(s) ==
    IF \/ Len(s) < 2
       \/ SubSeq(s, 1, 2) /= <<"0", "x">>
       \/ Len(s) % 2 /= 0
       \/ \E i \in 3..Len(s) : ~IsHexChar(s[i])
    THEN [b |-> NilBytes, err |-> ErrHex]
    ELSE [b |-> DecodeString(SubSeq(s, 3, Len(s))), err |-> NoErr]

---------------------------------------------------------------------------
(* Content hash *)

RECURSIVE Pow(_, _)
Pow(x, n) == IF n = 0 THEN 1 ELSE x * Pow(x, n - 1)

RECURSIVE Digest(_, _)
Digest(b, h) ==
    IF Len(b) = 0 THEN h
    ELSE Digest(Tail(b), (h * 31 + b[1] + 1) % Pow(256, HashLength))

RECURSIVE BigEndian(_, _)
BigEndian(n, w) ==
    IF w = 0 THEN <<>> ELSE Append(BigEndian(n \div 256, w - 1), n % 256)

\* common.BytesToHash: the HashLength-byte hash of all of b
BytesToHash(b) == BigEndian(Digest(GoBytes(b), 7), HashLength)

\* common.Hash.String
HashString(h) == <<"0", "x">> \o EncodeToString(h)

---------------------------------------------------------------------------
(* The storage provider (StorageAPI) *)

K1 == <<1>>
K2 == <<171, 1>>
StoredKeys == {K1, K2}

ByteVals == {171}

Values == UNION {[1..n -> ByteVals] : n \in 0..MaxValLen}

\* a trie gives each key its value, or nil when the key is absent; K2 is
\* always present, K1 holds every value or none
Tries == {t \in [StoredKeys -> Values \cup {NilBytes}] : t[K2] = <<171>>}

Refs == {"b1", "b2"}
Known == {"b1"}
RootOf(b) == "r1"
Roots == {NoRoot, "r1"}

\* the trie of block b1: the latest trie differs from it in general
GenesisTrie == [k \in StoredKeys |-> IF k = K1 THEN <<171>> ELSE <<>>]

Lookup(trie, key) == IF key \in DOMAIN trie THEN trie[key] ELSE NilBytes

\* StorageAPI.GetStateRootFromBlock
GetStateRootFromBlock(b) ==
    IF b \in Known THEN [root |-> RootOf(b), err |-> NoErr]
    ELSE [root |-> NoRoot, err |-> ErrUnknownBlock]

\* StorageAPI.GetStorage(root, key)
StorageGet(root, key, fail) ==
    IF fail THEN [item |-> NilBytes, err |-> ErrStorageUnavailable]
    ELSE [item |-> Lookup(store[root], key), err |-> NoErr]

\* StorageAPI.GetStorageByBlockHash(bhash, key)
GetStorageByBlockHash(b, key, fail) ==
    IF b \notin Known THEN [item |-> NilBytes, err |-> ErrUnknownBlock]
    ELSE StorageGet(RootOf(b), key, fail)

\* StorageAPI.Entries(root): a Go map of the keys present in the trie
Entries(root, fail) ==
    IF fail THEN [pairs |-> <<>>, err |-> ErrStorageUnavailable]
    ELSE [pairs |-> [k \in {x \in StoredKeys : store[root][x] /= NilBytes}
                       |-> store[root][k]],
          err |-> NoErr]

\* the orders in which a range over a Go map may visit the keys
Orders == {o \in [1..Cardinality(StoredKeys) -> StoredKeys] :
              \A i, j \in DOMAIN o : i /= j => o[i] /= o[j]}

\* one provider call as the handler made it: the method, its block hash or
\* state root, its key, and what came back
ProviderCall(api, ref, key, out, err) ==
    [api |-> api, ref |-> ref, key |-> key, out |-> out, err |-> err]

---------------------------------------------------------------------------
(* Requests and response objects *)

KeyStrs == { <<>>,
             <<"0", "x">>,
             <<"0", "x", "0", "1">>,
             <<"0", "x", "a", "b", "0", "1">>,
             <<"0", "x", "0">> }

RefOrNil == Refs \cup {NoHash}

Request(k, b) == [key |-> k, bhash |-> b]

OldStr == <<"0", "x", "f", "f">>

ZeroStorage == [StorageValue |-> <<>>]
StorageResponses == {ZeroStorage, [StorageValue |-> OldStr]}

ZeroHash == [StorageHash |-> <<>>]
HashResponses == {ZeroHash, [StorageHash |-> OldStr]}

ZeroSize == [StorageEntrySize |-> 0]
SizeResponses == {ZeroSize, [StorageEntrySize |-> 9]}

ZeroPairs == [keys |-> <<>>]
PairResponses == {ZeroPairs, [keys |-> << <<OldStr, OldStr>> >>]}

Outcome(r, e, c) == [res |-> r, ret |-> e, calls |-> c]

---------------------------------------------------------------------------
(* Storage read operations *)

\* the lookup shared by GetStorage, GetStorageHash and GetStorageSize
FetchItem(reqv, fail) ==
    LET reqBytes == HexToBytes(reqv.key).b
    IN  IF reqv.bhash /= NoHash
        THEN LET r == GetStorageByBlockHash(reqv.bhash, reqBytes, fail)
             IN  [item |-> r.item, err |-> r.err,
                  call |-> ProviderCall("GetStorageByBlockHash", reqv.bhash, reqBytes,
                                       r.item, r.err)]
        ELSE LET r == StorageGet(NoRoot, reqBytes, fail)
             IN  [item |-> r.item, err |-> r.err,
                  call |-> ProviderCall("GetStorage", NoRoot, reqBytes, r.item, r.err)]

\* GetStorage that clears the response when the lookup fails
GetStorageOut_ClearOnError(reqv, resv, fail) ==
    LET f == FetchItem(reqv, fail)
    IN  IF f.err /= NoErr THEN Outcome(ZeroStorage, f.err, <<f.call>>)
        ELSE IF GoLen(f.item) > 0
        THEN Outcome([resv EXCEPT !.StorageValue = BytesToHex(f.item)], NoErr, <<f.call>>)
        ELSE Outcome(ZeroStorage, NoErr, <<f.call>>)

GetStorageOut(reqv, resv, fail) ==
    LET f == FetchItem(reqv, fail)
    IN  IF f.err /= NoErr THEN Outcome(resv, f.err, <<f.call>>)
        ELSE IF GoLen(f.item) > 0
        THEN Outcome([resv EXCEPT !.StorageValue = BytesToHex(f.item)], NoErr, <<f.call>>)
        ELSE Outcome(ZeroStorage, NoErr, <<f.call>>)

\* GetStorageHash that returns the value itself, not its hash
GetStorageHashOut_NoHash(reqv, resv, fail) ==
    LET f == FetchItem(reqv, fail)
    IN  IF f.err /= NoErr THEN Outcome(resv, f.err, <<f.call>>)
        ELSE IF GoLen(f.item) > 0
        THEN Outcome([resv EXCEPT !.StorageHash = BytesToHex(f.item)], NoErr, <<f.call>>)
        ELSE Outcome(ZeroHash, NoErr, <<f.call>>)

GetStorageHashOut(reqv, resv, fail) ==
    LET f == FetchItem(reqv, fail)
    IN  IF f.err /= NoErr THEN Outcome(resv, f.err, <<f.call>>)
        ELSE IF GoLen(f.item) > 0
        THEN Outcome([resv EXCEPT !.StorageHash = HashString(BytesToHash(f.item))],
                     NoErr, <<f.call>>)
        ELSE Outcome(ZeroHash, NoErr, <<f.call>>)

\* GetStorageSize that leaves the response alone when there are no bytes
GetStorageSizeOut_NoReset(reqv, resv, fail) ==
    LET f == FetchItem(reqv, fail)
    IN  IF f.err /= NoErr THEN Outcome(resv, f.err, <<f.call>>)
        ELSE IF GoLen(f.item) > 0
        THEN Outcome([StorageEntrySize |-> GoLen(f.item)], NoErr, <<f.call>>)
        ELSE Outcome(resv, NoErr, <<f.call>>)

GetStorageSizeOut(reqv, resv, fail) ==
    LET f == FetchItem(reqv, fail)
    IN  IF f.err /= NoErr THEN Outcome(resv, f.err, <<f.call>>)
        ELSE IF GoLen(f.item) > 0
        THEN Outcome([StorageEntrySize |-> GoLen(f.item)], NoErr, <<f.call>>)
        ELSE Outcome(ZeroSize, NoErr, <<f.call>>)

---------------------------------------------------------------------------
(* The step of one handler call *)

NoPrev == [set |-> FALSE, bhash |-> NoHash, keys |-> <<>>]

\* the call that is now the last one, as the next call will remember it: a
\* successful GetPairs with an empty prefix on a fresh response object
Remembered ==
    IF /\ op = "GetPairs"
       /\ ret = NoErr
       /\ before = ZeroPairs
       /\ GoLen(HexToBytes(req.key).b) < 1
    THEN [set |-> TRUE, bhash |-> req.bhash, keys |-> res.keys]
    ELSE NoPrev

Apply(name, reqv, resv, out) ==
    /\ op' = name
    /\ req' = reqv
    /\ before' = resv
    /\ res' = out.res
    /\ ret' = out.ret
    /\ calls' = out.calls
    /\ prevPairs' = Remembered

GetStorage ==
    /\ \E k \in KeyStrs, b \in RefOrNil, old \in StorageResponses, fail \in BOOLEAN :
           Apply("GetStorage", Request(k, b), old, GetStorageOut(Request(k, b), old, fail))
    /\ UNCHANGED store

GetStorageHash ==
    /\ \E k \in KeyStrs, b \in RefOrNil, old \in HashResponses, fail \in BOOLEAN :
           Apply("GetStorageHash", Request(k, b), old,
                 GetStorageHashOut(Request(k, b), old, fail))
    /\ UNCHANGED store

GetStorageSize ==
    /\ \E k \in KeyStrs, b \in RefOrNil, old \in SizeResponses, fail \in BOOLEAN :
           Apply("GetStorageSize", Request(k, b), old,
                 GetStorageSizeOut(Request(k, b), old, fail))
    /\ UNCHANGED store

---------------------------------------------------------------------------
(* Prefix enumeration *)

\* for k, v := range pairs, visiting the keys of the map in the given order
RangeOver(pairs, order) == SelectSeq(order, LAMBDA k : k \in DOMAIN pairs)

\* GetPairs that drops the resolver's error and goes on with a nil state root
GetPairsOut_IgnoreResolver(reqv, resv, fail, order) ==
    LET reqBytes == HexToBytes(reqv.key).b
        rr == IF reqv.bhash /= NoHash THEN GetStateRootFromBlock(reqv.bhash)
              ELSE [root |-> NoRoot, err |-> NoErr]
        resolved == IF reqv.bhash /= NoHash
                    THEN <<ProviderCall("GetStateRootFromBlock", reqv.bhash, NilBytes,
                                        NilBytes, rr.err)>>
                    ELSE <<>>
        stateRootHash == rr.root
    IN  IF GoLen(reqBytes) < 1
        THEN LET e == Entries(stateRootHash, fail)
                 c == ProviderCall("Entries", stateRootHash, NilBytes, NilBytes, e.err)
                 visited == RangeOver(e.pairs, order)
             IN  IF e.err /= NoErr THEN Outcome(resv, e.err, Append(resolved, c))
                 ELSE Outcome([resv EXCEPT !.keys =
                                  resv.keys \o [i \in 1..Len(visited) |->
                                      <<Hex0x(visited[i]), Hex0x(e.pairs[visited[i]])>>]],
                              NoErr, Append(resolved, c))
        ELSE LET g == StorageGet(stateRootHash, reqBytes, fail)
                 c == ProviderCall("GetStorage", stateRootHash, reqBytes, g.item, g.err)
             IN  IF g.err /= NoErr THEN Outcome(resv, g.err, Append(resolved, c))
                 ELSE IF g.item /= NilBytes
                 THEN Outcome([resv EXCEPT !.keys =
                                  Append(resv.keys, <<Hex0x(reqBytes), Hex0x(g.item)>>)],
                              NoErr, Append(resolved, c))
                 ELSE Outcome([resv EXCEPT !.keys = <<>>], NoErr, Append(resolved, c))

GetPairsOut(reqv, resv, fail, order) ==
    LET reqBytes == HexToBytes(reqv.key).b
        rr == IF reqv.bhash /= NoHash THEN GetStateRootFromBlock(reqv.bhash)
              ELSE [root |-> NoRoot, err |-> NoErr]
        resolved == IF reqv.bhash /= NoHash
                    THEN <<ProviderCall("GetStateRootFromBlock", reqv.bhash, NilBytes,
                                        NilBytes, rr.err)>>
                    ELSE <<>>
        stateRootHash == rr.root
    IN  IF rr.err /= NoErr THEN Outcome(resv, rr.err, resolved)
        ELSE IF GoLen(reqBytes) < 1
        THEN LET e == Entries(stateRootHash, fail)
                 c == ProviderCall("Entries", stateRootHash, NilBytes, NilBytes, e.err)
                 visited == RangeOver(e.pairs, order)
             IN  IF e.err /= NoErr THEN Outcome(resv, e.err, Append(resolved, c))
                 ELSE Outcome([resv EXCEPT !.keys =
                                  resv.keys \o [i \in 1..Len(visited) |->
                                      <<Hex0x(visited[i]), Hex0x(e.pairs[visited[i]])>>]],
                              NoErr, Append(resolved, c))
        ELSE LET g == StorageGet(stateRootHash, reqBytes, fail)
                 c == ProviderCall("GetStorage", stateRootHash, reqBytes, g.item, g.err)
             IN  IF g.err /= NoErr THEN Outcome(resv, g.err, Append(resolved, c))
                 ELSE IF g.item /= NilBytes
                 THEN Outcome([resv EXCEPT !.keys =
                                  Append(resv.keys, <<Hex0x(reqBytes), Hex0x(g.item)>>)],
                              NoErr, Append(resolved, c))
                 ELSE Outcome([resv EXCEPT !.keys = <<>>], NoErr, Append(resolved, c))

GetPairs ==
    /\ \E k \in KeyStrs, b \in RefOrNil, old \in PairResponses, fail \in BOOLEAN,
          order \in Orders :
           Apply("GetPairs", Request(k, b), old,
                 GetPairsOut(Request(k, b), old, fail, order))
    /\ UNCHANGED store

---------------------------------------------------------------------------
(* Runtime version and metadata (CoreAPI) *)

\* a nil *StateRuntimeVersionRequest
NilRequest == [key |-> <<>>, bhash |-> "nil request"]

V1 == [Spec_name |-> <<1>>, Impl_name |-> <<1>>, Authoring_version |-> 1,
       Spec_version |-> 1, Impl_version |-> 1,
       API |-> << [Name |-> <<171>>, Ver |-> 1] >>]
V2 == [Spec_name |-> <<1>>, Impl_name |-> <<171>>, Authoring_version |-> 1,
       Spec_version |-> 2, Impl_version |-> 1,
       API |-> << [Name |-> <<171>>, Ver |-> 2], [Name |-> <<1, 1>>, Ver |-> 1] >>]

\* what CoreAPI.GetRuntimeVersion may answer
RuntimeAnswers == {[v |-> V1, err |-> NoErr], [v |-> V2, err |-> NoErr],
                   [v |-> V1, err |-> ErrRuntimeUnavailable]}

ZeroVersion == [SpecName |-> <<>>, ImplName |-> <<>>, AuthoringVersion |-> 0,
                SpecVersion |-> 0, ImplVersion |-> 0, Apis |-> <<>>]
VersionResponses == {ZeroVersion,
                     [ZeroVersion EXCEPT !.SpecName = <<171>>, !.SpecVersion = 9]}

convertAPIs(in) ==
    [i \in 1..Len(in) |-> <<Hex0x(in[i].Name), in[i].Ver>>]

\* GetRuntimeVersion that always asks the provider for the latest version
GetRuntimeVersionOut_AskLatest(reqv, resv, ans) ==
    LET c == ProviderCall("GetRuntimeVersion", NoHash, NilBytes, ans.v, ans.err)
    IN  IF ans.err /= NoErr THEN Outcome(resv, ans.err, <<c>>)
        ELSE Outcome([SpecName |-> ans.v.Spec_name,
                      ImplName |-> ans.v.Impl_name,
                      AuthoringVersion |-> ans.v.Authoring_version,
                      SpecVersion |-> ans.v.Spec_version,
                      ImplVersion |-> ans.v.Impl_version,
                      Apis |-> convertAPIs(ans.v.API)],
                     NoErr, <<c>>)

GetRuntimeVersionOut(reqv, resv, ans) ==
    IF reqv = NilRequest THEN Outcome(resv, Panic, <<>>)
    ELSE LET c == ProviderCall("GetRuntimeVersion", reqv.bhash, NilBytes, ans.v, ans.err)
         IN  IF ans.err /= NoErr THEN Outcome(resv, ans.err, <<c>>)
             ELSE Outcome([SpecName |-> ans.v.Spec_name,
                           ImplName |-> ans.v.Impl_name,
                           AuthoringVersion |-> ans.v.Authoring_version,
                           SpecVersion |-> ans.v.Spec_version,
                           ImplVersion |-> ans.v.Impl_version,
                           Apis |-> convertAPIs(ans.v.API)],
                          NoErr, <<c>>)

GetRuntimeVersion ==
    /\ \E b \in RefOrNil, old \in VersionResponses, ans \in RuntimeAnswers :
           Apply("GetRuntimeVersion", Request(<<>>, b), old,
                 GetRuntimeVersionOut(Request(<<>>, b), old, ans))
    /\ UNCHANGED store

SubscribeRuntimeVersionOut(reqv, resv, ans) ==
    GetRuntimeVersionOut(NilRequest, resv, ans)

SubscribeRuntimeVersion ==
    /\ \E b \in RefOrNil, old \in VersionResponses, ans \in RuntimeAnswers :
           Apply("SubscribeRuntimeVersion", Request(<<>>, b), old,
                 SubscribeRuntimeVersionOut(Request(<<>>, b), old, ans))
    /\ UNCHANGED store

\* what CoreAPI.GetMetadata may answer: a blob, or an error
Blobs == { <<>>, <<0>>, <<1, 171>>, <<2, 171>>, <<2, 171, 1>> }
MetadataAnswers == {[blob |-> x, err |-> NoErr] : x \in Blobs}
                       \cup {[blob |-> NilBytes, err |-> ErrRuntimeUnavailable]}

\* scale.Decode(blob, []byte{}): the bytes after a length prefix; the result
\* is an interface{} that holds a []byte
ScaleDecode(blob) ==
    IF Len(blob) = 0 \/ Len(blob) - 1 < blob[1]
    THEN [typ |-> "[]byte", val |-> NilBytes, err |-> ErrDecode]
    ELSE [typ |-> "[]byte", val |-> SubSeq(blob, 2, 1 + blob[1]), err |-> NoErr]

ZeroMetadata == [Metadata |-> <<>>]
MetadataResponses == {ZeroMetadata, [Metadata |-> OldStr]}

\* GetMetadata that returns nil whatever the decode step returned
GetMetadataOut_DropDecodeError(reqv, resv, ans) ==
    LET c == ProviderCall("GetMetadata", reqv.bhash, NilBytes, ans.blob, ans.err)
    IN  IF ans.err /= NoErr THEN Outcome(resv, ans.err, <<c>>)
        ELSE Outcome([resv EXCEPT !.Metadata = BytesToHex(ScaleDecode(ans.blob).val)],
                     NoErr, <<c>>)

GetMetadataOut(reqv, resv, ans) ==
    LET c == ProviderCall("GetMetadata", reqv.bhash, NilBytes, ans.blob, ans.err)
    IN  IF ans.err /= NoErr THEN Outcome(resv, ans.err, <<c>>)
        ELSE LET decoded == ScaleDecode(ans.blob)
             IN  IF decoded.typ /= "[]byte" THEN Outcome(resv, Panic, <<c>>)
                 ELSE Outcome([resv EXCEPT !.Metadata = BytesToHex(decoded.val)],
                              decoded.err, <<c>>)

GetMetadata ==
    /\ \E b \in RefOrNil, old \in MetadataResponses, ans \in MetadataAnswers :
           Apply("GetMetadata", Request(<<>>, b), old,
                 GetMetadataOut(Request(<<>>, b), old, ans))
    /\ UNCHANGED store

---------------------------------------------------------------------------
(* Operations that are not implemented *)

StubResponses == {[data |-> <<>>], [data |-> <<255>>]}

CallOut(reqv, resv) == Outcome(resv, Void, <<>>)
GetChildKeysOut(reqv, resv) == Outcome(resv, Void, <<>>)
GetChildStorageOut(reqv, resv) == Outcome(resv, Void, <<>>)
GetChildStorageHashOut(reqv, resv) == Outcome(resv, Void, <<>>)
GetChildStorageSizeOut(reqv, resv) == Outcome(resv, Void, <<>>)
GetKeysOut(reqv, resv) == Outcome(resv, Void, <<>>)
QueryStorageOut(reqv, resv) == Outcome(resv, NoErr, <<>>)
SubscribeStorageOut(reqv, resv) == Outcome(resv, NoErr, <<>>)

Call ==
    /\ \E b \in RefOrNil, old \in StubResponses :
           Apply("Call", Request(<<>>, b), old, CallOut(Request(<<>>, b), old))
    /\ UNCHANGED store

GetChildKeys ==
    /\ \E b \in RefOrNil, old \in StubResponses :
           Apply("GetChildKeys", Request(<<>>, b), old,
                 GetChildKeysOut(Request(<<>>, b), old))
    /\ UNCHANGED store

GetChildStorage ==
    /\ \E b \in RefOrNil, old \in StubResponses :
           Apply("GetChildStorage", Request(<<>>, b), old,
                 GetChildStorageOut(Request(<<>>, b), old))
    /\ UNCHANGED store

GetChildStorageHash ==
    /\ \E b \in RefOrNil, old \in StubResponses :
           Apply("GetChildStorageHash", Request(<<>>, b), old,
                 GetChildStorageHashOut(Request(<<>>, b), old))
    /\ UNCHANGED store

GetChildStorageSize ==
    /\ \E b \in RefOrNil, old \in StubResponses :
           Apply("GetChildStorageSize", Request(<<>>, b), old,
                 GetChildStorageSizeOut(Request(<<>>, b), old))
    /\ UNCHANGED store

GetKeys ==
    /\ \E b \in RefOrNil, old \in StubResponses :
           Apply("GetKeys", Request(<<>>, b), old, GetKeysOut(Request(<<>>, b), old))
    /\ UNCHANGED store

QueryStorage ==
    /\ \E b \in RefOrNil, old \in StubResponses :
           Apply("QueryStorage", Request(<<>>, b), old,
                 QueryStorageOut(Request(<<>>, b), old))
    /\ UNCHANGED store

SubscribeStorage ==
    /\ \E b \in RefOrNil, old \in StubResponses :
           Apply("SubscribeStorage", Request(<<>>, b), old,
                 SubscribeStorageOut(Request(<<>>, b), old))
    /\ UNCHANGED store

---------------------------------------------------------------------------

Init ==
    /\ store \in {[r \in Roots |-> IF r = NoRoot THEN t ELSE GenesisTrie] : t \in Tries}
    /\ op = "none"
    /\ req = Request(<<>>, NoHash)
    /\ before = ZeroStorage
    /\ res = ZeroStorage
    /\ ret = NoErr
    /\ calls = <<>>
    /\ prevPairs = NoPrev

Next ==
    \/ GetStorage
    \/ GetStorageHash
    \/ GetStorageSize
    \/ GetPairs
    \/ GetRuntimeVersion
    \/ SubscribeRuntimeVersion
    \/ GetMetadata
    \/ Call
    \/ GetChildKeys
    \/ GetChildStorage
    \/ GetChildStorageHash
    \/ GetChildStorageSize
    \/ GetKeys
    \/ QueryStorage
    \/ SubscribeStorage

Spec == Init /\ [][Next]_vars

---------------------------------------------------------------------------
(* The claims *)

ErrNotImplemented == "NotImplemented"

StorageReadOps == {"GetStorage", "GetStorageHash", "GetStorageSize"}
RefOps == StorageReadOps \cup {"GetPairs"}
ProviderOps == RefOps \cup {"GetRuntimeVersion", "GetMetadata"}
StubOps == {"GetChildKeys", "GetChildStorage", "GetChildStorageHash",
            "GetChildStorageSize", "GetKeys", "QueryStorage", "SubscribeStorage",
            "Call"}

StorageLookups == {"GetStorage", "GetStorageByBlockHash", "Entries"}

\* the key (or prefix) of the last request, decoded
ReqBytes == HexToBytes(req.key).b
\* the last request names a block / names one the resolver does not know
Supplied == req.bhash /= NoHash
Unresolvable == req.bhash \in Refs \ Known
\* the trie the last request is about, and what it holds for the key
SnapshotTrie == store[IF Supplied THEN RootOf(req.bhash) ELSE NoRoot]
StoredItem == Lookup(SnapshotTrie, ReqBytes)
LastCall == calls[Len(calls)]

ZeroOf(o) == CASE o = "GetStorage" -> ZeroStorage
               [] o = "GetStorageHash" -> ZeroHash
               [] o = "GetStorageSize" -> ZeroSize

\* C1, as claimed: every operation that takes a block reference answers an
\* unresolvable one with UnknownBlock and makes no storage lookup before it.
C1_Original ==
    op \in RefOps /\ Unresolvable
        => ret = ErrUnknownBlock
           /\ \A i \in DOMAIN calls : calls[i].api \notin StorageLookups

\* C1, amended: GetPairs answers an unresolvable reference with the resolver's
\* UnknownBlock error, the response untouched and no storage lookup made.
\* GetStorage, GetStorageHash and GetStorageSize never call the resolver: for
\* a supplied reference they make exactly one GetStorageByBlockHash lookup
\* with the raw block hash and the decoded key, and return the error of that
\* lookup unmodified with the response untouched.
C1_Amended ==
    /\ op = "GetPairs" /\ Unresolvable
         => /\ ret = ErrUnknownBlock
            /\ res = before
            /\ Len(calls) = 1
            /\ calls[1].api = "GetStateRootFromBlock"
            /\ calls[1].ref = req.bhash
    /\ op \in StorageReadOps /\ Supplied
         => /\ Len(calls) = 1
            /\ calls[1].api = "GetStorageByBlockHash"
            /\ calls[1].ref = req.bhash
            /\ calls[1].key = ReqBytes
            /\ calls[1].err /= NoErr => ret = calls[1].err /\ res = before

C1_Witness ==
    /\ op = "GetPairs"
    /\ Unresolvable
    /\ ret = ErrUnknownBlock
    /\ before /= ZeroPairs

\* C2: when the storage provider returns no bytes and no error (the key is
\* missing, or present with an empty value), GetStorage, GetStorageHash and
\* GetStorageSize return no error and the response is its type's zero value,
\* whatever it held before and with or without a block reference.
C2_ZeroValueOnNoBytes ==
    /\ op \in StorageReadOps
    /\ LastCall.err = NoErr
    /\ GoLen(StoredItem) = 0
    => ret = NoErr /\ res = ZeroOf(op)

C2_Witness ==
    /\ op = "GetStorageSize"
    /\ Supplied
    /\ LastCall.err = NoErr
    /\ StoredItem = <<>>
    /\ before /= ZeroSize
    /\ res = ZeroSize

PresentKeys == {k \in StoredKeys : SnapshotTrie[k] /= NilBytes}

\* C4, as claimed, for calls on a fresh response object: GetPairs with an
\* empty prefix returns exactly one hex-encoded pair for every stored entry,
\* and two calls in a row on the same snapshot return the same list.
C4_Claim ==
    /\ op = "GetPairs"
    /\ ret = NoErr
    /\ GoLen(ReqBytes) < 1
    /\ before = ZeroPairs
    => /\ Len(res.keys) = Cardinality(PresentKeys)
       /\ \A k \in PresentKeys :
             \E i \in DOMAIN res.keys :
                 res.keys[i] = <<Hex0x(k), Hex0x(SnapshotTrie[k])>>
       /\ prevPairs.set /\ prevPairs.bhash = req.bhash => res.keys = prevPairs.keys

\* C5, as claimed: GetPairs with a non-empty prefix returns exactly the one
\* pair [prefix, value] when the prefix is a stored key and the empty list
\* when it is not, with nothing of what the response held before.
C5_Claim ==
    /\ op = "GetPairs"
    /\ LastCall.api = "GetStorage"
    /\ LastCall.err = NoErr
    /\ GoLen(ReqBytes) >= 1
    => /\ ret = NoErr
       /\ res.keys = IF StoredItem /= NilBytes
                     THEN << <<Hex0x(ReqBytes), Hex0x(StoredItem)>> >>
                     ELSE <<>>

\* C6, as claimed: the block reference of the request has no part in what
\* GetRuntimeVersion asks the provider for: it asks for the latest version.
C6_Original ==
    op = "GetRuntimeVersion"
        => \A i \in DOMAIN calls : calls[i].ref = NoHash

\* the response that holds runtime version v
VersionResponse(v) ==
    [SpecName |-> v.Spec_name, ImplName |-> v.Impl_name,
     AuthoringVersion |-> v.Authoring_version, SpecVersion |-> v.Spec_version,
     ImplVersion |-> v.Impl_version,
     Apis |-> [i \in 1..Len(v.API) |->
                  <<<<"0", "x">> \o EncodeToString(v.API[i].Name), v.API[i].Ver>>]]

\* C6, amended: GetRuntimeVersion makes one provider call and passes the
\* request's block reference to it unchanged (nil when absent); the response
\* is the provider's answer, field by field, and depends on the reference
\* only through that answer; on a provider error the response is untouched.
C6_Amended ==
    op = "GetRuntimeVersion"
        => /\ Len(calls) = 1
           /\ calls[1].api = "GetRuntimeVersion"
           /\ calls[1].ref = req.bhash
           /\ IF calls[1].err = NoErr
              THEN ret = NoErr /\ res = VersionResponse(calls[1].out)
              ELSE ret = calls[1].err /\ res = before

C6_Witness ==
    /\ op = "GetRuntimeVersion"
    /\ req.bhash = "b1"
    /\ ret = NoErr
    /\ before /= ZeroVersion
    /\ res = VersionResponse(V2)

\* C7, as claimed: every unimplemented operation ends with an explicit
\* "not implemented" outcome and leaves the response as it was.
C7_Claim ==
    op \in StubOps => ret = ErrNotImplemented /\ res = before

\* C8, as claimed: SubscribeRuntimeVersion never ends in a crash: it makes
\* one provider call and returns what GetRuntimeVersion returns for the
\* latest state.
C8_Claim ==
    op = "SubscribeRuntimeVersion"
        => /\ ret /= Panic
           /\ Len(calls) = 1
           /\ calls[1].api = "GetRuntimeVersion"
           /\ IF calls[1].err = NoErr
              THEN ret = NoErr /\ res = VersionResponse(calls[1].out)
              ELSE ret = calls[1].err

C10_ErrorsPropagate ==
    op \in ProviderOps
        => /\ Cardinality({i \in DOMAIN calls :
                              calls[i].api = "GetStateRootFromBlock"}) <= 1
           /\ Cardinality({i \in DOMAIN calls :
                              calls[i].api /= "GetStateRootFromBlock"}) <= 1
           /\ \A i \in DOMAIN calls :
                 calls[i].err /= NoErr
                     => i = Len(calls) /\ ret = calls[i].err /\ res = before

C10_Witness ==
    /\ op = "GetPairs"
    /\ Len(calls) = 2
    /\ calls[2].err = ErrStorageUnavailable
    /\ ret = ErrStorageUnavailable
    /\ before /= ZeroPairs
    /\ res = before

====
